---- MODULE Spec2Model ----
(***************************************************************************)
(* e2e_tests/sklearn_parity.py: the scikit-learn parity oracle.            *)
(*                                                                         *)
(* main() is a straight-line script.  Every statement of it is one action  *)
(* of this module, named after its line (L20 is line 20), and pc is the    *)
(* statement about to run.  An exception that leaves main() ends the       *)
(* process (pc = "aborted"); nothing catches one.                          *)
(*                                                                         *)
(* The state of a run is the interpreter's: the local names bound so far   *)
(* (locals), what has been written to standard output (stdout) and the     *)
(* exception that ended it (err).  Around it is the environment: the two   *)
(* files of the data directory (fs) and what the gradient-boosting learner *)
(* makes of a training set under given hyperparameters (learned).          *)
(***************************************************************************)
EXTENDS Integers, Sequences, FiniteSets, TLC

VARIABLES fs, pc, locals, stdout, err, calls, learned, run, outcomes

vars == <<fs, pc, locals, stdout, err, calls, learned, run, outcomes>>

(***************************************************************************)
(* Bounds of the input space and of the number of invocations.             *)
(***************************************************************************)
MaxTrainRows == 3
MaxTestRows == 2
MaxRuns == 2

FeatVals == {0, 1}
Labels == {0, 1, 2}

LabelCol == "label"
TrainFile == "iris_train.csv"
TestFile == "iris_test.csv"

Range(s) == {s[i] : i \in 1..Len(s)}

(***************************************************************************)
(* Python values.  A float is kept as the exact fraction it rounds; 0/0    *)
(* is nan.  Fractions are kept in lowest terms, so that equal floats are   *)
(* equal values (2/4 and 1/2 are the same float).                          *)
(***************************************************************************)
RECURSIVE Gcd(_, _)
Gcd(a, b) == IF b = 0 THEN a ELSE Gcd(b, a % b)

Frac(n, d) ==
    IF d = 0 THEN [type |-> "float", num |-> 0, den |-> 0]
    ELSE [type |-> "float", num |-> n \div Gcd(n, d), den |-> d \div Gcd(n, d)]

NaN == Frac(0, 0)
PyInt(n) == [type |-> "int", v |-> n]
PyList(s) == [type |-> "list", items |-> s]

(***************************************************************************)
(* numpy arrays: a shape and the data.  A matrix keeps its number of       *)
(* columns when it has no rows (shape (0, w)).  An array has no column     *)
(* names (columns is empty); a frame handed over as it is would have them. *)
(***************************************************************************)
Matrix(n, w, rows, dtype) ==
    [shape |-> <<n, w>>, dtype |-> dtype, data |-> rows, columns |-> <<>>]
Vector(s, dtype) == [shape |-> <<Len(s)>>, dtype |-> dtype, data |-> s]

(***************************************************************************)
(* The files the data directory may hold.  A file is absent, or a header   *)
(* and rows under it.  Label cells are drawn from Labels.  Feature cells   *)
(* are drawn from FeatVals and alternate along a row, which leaves two     *)
(* feature rows of every width; the rows of a file carry them in turn, so  *)
(* that a file of n rows is decided by its header and its n labels.  The   *)
(* rows of a train file are grouped by class, in the order of the labels.  *)
(***************************************************************************)
FeatureRows(w) ==
    {v \in [1..w -> FeatVals] : \A i \in 1..(w - 1) : v[i] # v[i + 1]}

FeatureCycle(w, i) == [j \in 1..w |-> (i + j) % 2]

RECURSIVE Project(_, _, _)
Project(h, r, i) ==
    IF i > Len(h) THEN <<>>
    ELSE (IF h[i] = LabelCol THEN <<>> ELSE <<r[i]>>) \o Project(h, r, i + 1)

FeatureCols(h) == Project(h, h, 1)

RowsUnder(h) ==
    {r \in [1..Len(h) -> FeatVals \cup Labels] :
        /\ \A i \in 1..Len(h) : r[i] \in (IF h[i] = LabelCol THEN Labels ELSE FeatVals)
        /\ Project(h, r, 1) \in FeatureRows(Len(FeatureCols(h)))}

Absent == [exists |-> FALSE, header |-> <<>>, rows |-> <<>>]

Tables(h, n) ==
    {[exists |-> TRUE, header |-> h, rows |-> rs] :
        rs \in UNION {{t \in [1..k -> RowsUnder(h)] :
                          \A i \in 1..k :
                              Project(h, t[i], 1) = FeatureCycle(Len(FeatureCols(h)), i)} :
                      k \in 0..n}}

TrainHeaders == {<<"f1", "f2", "label">>, <<"f1", "f2">>}

TestHeaders ==
    {<<"f1", "f2", "label">>, <<"f2", "f1", "label">>, <<"label", "g1", "g2">>,
     <<"f1", "label">>, <<"f1", "f2">>}

LabelAt(file, i) ==
    file.rows[i][CHOOSE c \in 1..Len(file.header) : file.header[c] = LabelCol]

GroupedByClass(file) ==
    LabelCol \in Range(file.header) =>
        \A i \in 1..(Len(file.rows) - 1) : LabelAt(file, i) <= LabelAt(file, i + 1)

TrainFiles ==
    {Absent} \cup
    {t \in UNION {Tables(h, MaxTrainRows) : h \in TrainHeaders} : GroupedByClass(t)}

TestFiles == {Absent} \cup UNION {Tables(h, MaxTestRows) : h \in TestHeaders}

(***************************************************************************)
(* pandas.  read_csv gives the frame of a file; drop(columns=["label"])    *)
(* removes the label column, whatever its position, and raises KeyError    *)
(* when there is none; df["label"] is that column, KeyError likewise;      *)
(* .values is the bare array of a frame, without its column names.         *)
(***************************************************************************)
ReadCsv(file) == [columns |-> file.header, rows |-> file.rows]

HasLabel(df) == LabelCol \in Range(df.columns)

(* Variant: drop(columns=["label"], errors="ignore"), which never raises. *)
DropIgnoresMissing(df) == FALSE

DropRaises(df) == ~HasLabel(df)

Drop(df) ==
    [columns |-> FeatureCols(df.columns),
     rows |-> [i \in 1..Len(df.rows) |-> Project(df.columns, df.rows[i], 1)]]

(* Variant: the frame itself, without .values, which keeps the column names. *)
Frame(df) ==
    [shape |-> <<Len(df.rows), Len(df.columns)>>, dtype |-> "int64",
     data |-> df.rows, columns |-> df.columns]

Values(df) == Matrix(Len(df.rows), Len(df.columns), df.rows, "int64")

LabelValues(df) ==
    LET c == CHOOSE i \in 1..Len(df.columns) : df.columns[i] = LabelCol
    IN  Vector([i \in 1..Len(df.rows) |-> df.rows[i][c]], "int64")

(***************************************************************************)
(* sklearn.ensemble.GradientBoostingClassifier, as far as main() uses it.  *)
(*                                                                         *)
(* The constructor only records the hyperparameters (learning_rate and     *)
(* subsample are kept in thousandths; the constructor is given 42 as the   *)
(* seed whatever entropy the process has).  fit validates its input as     *)
(* scikit-learn does (check_array with its default minimum of one sample   *)
(* and one feature): it raises ValueError on a matrix with no rows or no   *)
(* columns, and on labels of fewer than two classes.  What it learns is    *)
(* not computed here: it is any map from feature rows to a class of the    *)
(* training labels (classes_ holds them sorted), the same one whenever the *)
(* hyperparameters (the seed among them) and the training set are the      *)
(* same.  predict and predict_proba validate as well: ValueError on no     *)
(* rows, on a number of columns other than the fitted one, and on column   *)
(* names other than the fitted ones when both inputs carry names.  predict *)
(* gives the class the map assigns to a row; predict_proba gives one       *)
(* column per class, here with all the mass on that class.                 *)
(***************************************************************************)
(* Variant: random_state left unset, so that each process seeds itself. *)
HyperparametersUnseeded(entropy) ==
    [n_estimators |-> 100, learning_rate |-> 100, max_depth |-> 3,
     min_samples_leaf |-> 1, subsample |-> 1000, random_state |-> entropy]

Hyperparameters(entropy) ==
    [n_estimators |-> 100, learning_rate |-> 100, max_depth |-> 3,
     min_samples_leaf |-> 1, subsample |-> 1000, random_state |-> 42]

GradientBoostingClassifier(entropy) ==
    [params |-> Hyperparameters(entropy), fitted |-> FALSE, classes_ |-> <<>>,
     n_features_in_ |-> 0, feature_names_in_ |-> <<>>, ensemble |-> <<>>]

RECURSIVE Sorted(_)
Sorted(S) ==
    IF S = {} THEN <<>>
    ELSE LET m == CHOOSE x \in S : \A z \in S : x <= z
         IN  <<m>> \o Sorted(S \ {m})

Classes(y) == Sorted(Range(y.data))

(* Variant: a classifier that accepts a matrix of no rows. *)
EnsureNothing(X) == TRUE

EnsureMinSamples(X) == X.shape[1] >= 1

EnsureMinFeatures(X) == X.shape[2] >= 1

FitAccepts(X, y) ==
    /\ EnsureMinSamples(X)
    /\ EnsureMinFeatures(X)
    /\ X.shape[1] = y.shape[1]
    /\ Len(Classes(y)) >= 2

Ensembles(X, y) == [FeatureRows(X.shape[2]) -> 1..Len(Classes(y))]

TrainingKey(clf, X, y) == <<clf.params, X, y>>

Fitted(clf, X, y, e) ==
    [params |-> clf.params, fitted |-> TRUE, classes_ |-> Classes(y),
     n_features_in_ |-> X.shape[2], feature_names_in_ |-> X.columns, ensemble |-> e]

FeatureNamesAgree(clf, X) ==
    \/ X.columns = <<>>
    \/ clf.feature_names_in_ = <<>>
    \/ X.columns = clf.feature_names_in_

QueryAccepts(clf, X) ==
    /\ clf.fitted
    /\ EnsureMinSamples(X)
    /\ X.shape[2] = clf.n_features_in_
    /\ FeatureNamesAgree(clf, X)

Predict(clf, X) ==
    Vector([i \in 1..X.shape[1] |-> clf.classes_[clf.ensemble[X.data[i]]]], "int64")

PredictProba(clf, X) ==
    Matrix(X.shape[1], Len(clf.classes_),
           [i \in 1..X.shape[1] |->
               [k \in 1..Len(clf.classes_) |->
                   IF clf.ensemble[X.data[i]] = k THEN Frac(1, 1) ELSE Frac(0, 1)]],
           "float64")

(***************************************************************************)
(* numpy: P[:, j] (j counts from 0, IndexError past the last column),      *)
(* a == b element by element, mean, and tolist.  The mean of no elements   *)
(* is nan, with a warning and no exception.                                *)
(***************************************************************************)
HasColumn(P, j) == j < P.shape[2]

Column(P, j) == Vector([i \in 1..P.shape[1] |-> P.data[i][j + 1]], P.dtype)

ElementwiseEq(a, b) ==
    Vector([i \in 1..a.shape[1] |-> a.data[i] = b.data[i]], "bool")

(* Variant: np.sum in place of np.mean. *)
NpSum(b) ==
    Frac(Cardinality({i \in 1..b.shape[1] : b.data[i]}), 1)

NpMean(b) ==
    Frac(Cardinality({i \in 1..b.shape[1] : b.data[i]}), b.shape[1])

ToList(v) ==
    PyList([i \in 1..v.shape[1] |->
               IF v.dtype = "float64" THEN v.data[i] ELSE PyInt(v.data[i])])

(***************************************************************************)
(* json.dumps of a dict, with its default separators.  A float is written  *)
(* as its shortest decimal and nan as NaN.                                 *)
(***************************************************************************)
Digit(d) == <<"0", "1", "2", "3", "4", "5", "6", "7", "8", "9">>[d + 1]

RECURSIVE IntRepr(_)
IntRepr(n) ==
    IF n < 0 THEN "-" \o IntRepr(0 - n)
    ELSE IF n < 10 THEN Digit(n)
    ELSE IntRepr(n \div 10) \o Digit(n % 10)

RECURSIVE Decimals(_, _, _)
Decimals(r, d, places) ==
    IF r = 0 \/ places = 0 THEN ""
    ELSE Digit((10 * r) \div d) \o Decimals((10 * r) % d, d, places - 1)

FloatRepr(f) ==
    IF f.den = 0 THEN "NaN"
    ELSE IntRepr(f.num \div f.den) \o "." \o
         (IF f.num % f.den = 0 THEN "0" ELSE Decimals(f.num % f.den, f.den, 16))

ScalarRepr(v) == IF v.type = "float" THEN FloatRepr(v) ELSE IntRepr(v.v)

RECURSIVE Join(_, _)
Join(strs, i) ==
    IF i > Len(strs) THEN ""
    ELSE (IF i > 1 THEN ", " ELSE "") \o strs[i] \o Join(strs, i + 1)

ValueRepr(v) ==
    IF v.type = "list"
    THEN "[" \o Join([i \in 1..Len(v.items) |-> ScalarRepr(v.items[i])], 1) \o "]"
    ELSE ScalarRepr(v)

JsonDumps(d) ==
    "{" \o Join([i \in 1..Len(d) |-> "\"" \o d[i][1] \o "\": " \o ValueRepr(d[i][2])], 1)
        \o "}"

(***************************************************************************)
(* The process.                                                            *)
(***************************************************************************)
DataDir == "data"

PathJoin(dir, name) == <<dir, name>>

NoError == [type |-> "none", line |-> "none"]

NoLocals == [n \in {} |-> 0]

NothingLearned == [k \in {} |-> 0]

Bind(l, name, v) == (name :> v) @@ l

Call(op, args) == [op |-> op, args |-> args]

Terminated == pc \in {"done", "aborted"}

Init ==
    /\ fs \in {(PathJoin(DataDir, TrainFile) :> a) @@ (PathJoin(DataDir, TestFile) :> b) :
                  a \in TrainFiles, b \in TestFiles}
    /\ pc = "L13"
    /\ locals = NoLocals
    /\ stdout = <<>>
    /\ err = NoError
    /\ calls = <<>>
    /\ learned = NothingLearned
    /\ run = 1
    /\ outcomes = <<>>

(***************************************************************************)
(* An uncaught exception: the process ends at the statement that raised,   *)
(* with nothing more written.  A statement that completes binds its name   *)
(* and passes control to the next.                                         *)
(***************************************************************************)
(* Variant: a handler that prints an empty record before the process ends. *)
RaiseAfterPartialPrint(type) ==
    /\ pc' = "aborted"
    /\ err' = [type |-> type, line |-> pc]
    /\ stdout' = Append(stdout, "{}")
    /\ UNCHANGED locals

Raise(type) ==
    /\ pc' = "aborted"
    /\ err' = [type |-> type, line |-> pc]
    /\ UNCHANGED <<locals, stdout>>

Step(next, name, v) ==
    /\ pc' = next
    /\ locals' = Bind(locals, name, v)
    /\ UNCHANGED <<stdout, err>>

(* Lines 13-18: the arguments and the two paths. *)
L13 ==
    /\ pc = "L13"
    /\ pc' = "L20"
    /\ locals' = Bind(Bind(locals, "train_path", PathJoin(DataDir, TrainFile)),
                      "test_path", PathJoin(DataDir, TestFile))
    /\ UNCHANGED <<fs, stdout, err, calls, learned, run, outcomes>>

(* Line 20: train_df = pd.read_csv(train_path) *)
L20 ==
    /\ pc = "L20"
    /\ calls' = Append(calls, Call("read_csv", <<locals["train_path"]>>))
    /\ IF fs[locals["train_path"]].exists
       THEN Step("L21", "train_df", ReadCsv(fs[locals["train_path"]]))
       ELSE Raise("FileNotFoundError")
    /\ UNCHANGED <<fs, learned, run, outcomes>>

(* Line 21: test_df = pd.read_csv(test_path) *)
L21 ==
    /\ pc = "L21"
    /\ calls' = Append(calls, Call("read_csv", <<locals["test_path"]>>))
    /\ IF fs[locals["test_path"]].exists
       THEN Step("L23", "test_df", ReadCsv(fs[locals["test_path"]]))
       ELSE Raise("FileNotFoundError")
    /\ UNCHANGED <<fs, learned, run, outcomes>>

(* Line 23: X_train = train_df.drop(columns=["label"]).values *)
L23 ==
    /\ pc = "L23"
    /\ calls' = Append(calls, Call("drop", <<"train_df">>))
    /\ IF ~DropRaises(locals["train_df"])
       THEN Step("L24", "X_train", Values(Drop(locals["train_df"])))
       ELSE Raise("KeyError")
    /\ UNCHANGED <<fs, learned, run, outcomes>>

(* Line 24: y_train = train_df["label"].values *)
L24 ==
    /\ pc = "L24"
    /\ calls' = Append(calls, Call("getitem", <<"train_df">>))
    /\ IF HasLabel(locals["train_df"])
       THEN Step("L25", "y_train", LabelValues(locals["train_df"]))
       ELSE Raise("KeyError")
    /\ UNCHANGED <<fs, learned, run, outcomes>>

(* Line 25: X_test = test_df.drop(columns=["label"]).values *)
L25 ==
    /\ pc = "L25"
    /\ calls' = Append(calls, Call("drop", <<"test_df">>))
    /\ IF ~DropRaises(locals["test_df"])
       THEN Step("L26", "X_test", Values(Drop(locals["test_df"])))
       ELSE Raise("KeyError")
    /\ UNCHANGED <<fs, learned, run, outcomes>>

(* Line 26: y_test = test_df["label"].values *)
L26 ==
    /\ pc = "L26"
    /\ calls' = Append(calls, Call("getitem", <<"test_df">>))
    /\ IF HasLabel(locals["test_df"])
       THEN Step("L28", "y_test", LabelValues(locals["test_df"]))
       ELSE Raise("KeyError")
    /\ UNCHANGED <<fs, learned, run, outcomes>>

(* Lines 28-35: clf = GradientBoostingClassifier(..., random_state=42) *)
L28 ==
    /\ pc = "L28"
    /\ calls' = Append(calls, Call("GradientBoostingClassifier", <<>>))
    /\ Step("L36", "clf", GradientBoostingClassifier(run))
    /\ UNCHANGED <<fs, learned, run, outcomes>>

(* Line 36: clf.fit(X_train, y_train) *)
(* Variant: fit on the test split. *)
FitArgsOfTest(l) == <<l["X_test"], l["y_test"]>>

FitArgs(l) == <<l["X_train"], l["y_train"]>>

L36 ==
    /\ pc = "L36"
    /\ LET clf == locals["clf"]
           X == FitArgs(locals)[1]
           y == FitArgs(locals)[2]
           key == TrainingKey(clf, X, y)
       IN  /\ calls' = Append(calls, Call("fit", <<X, y>>))
           /\ IF FitAccepts(X, y)
              THEN \E e \in (IF key \in DOMAIN learned THEN {learned[key]}
                                                      ELSE Ensembles(X, y)) :
                      /\ learned' = (key :> e) @@ learned
                      /\ Step("L38", "clf", Fitted(clf, X, y, e))
              ELSE Raise("ValueError") /\ UNCHANGED learned
    /\ UNCHANGED <<fs, run, outcomes>>

(* Line 38: test_probabilities = clf.predict_proba(X_test)[:, 1].tolist() *)
(* Variant: the column is taken only when there are exactly two classes. *)
BinaryOnly(P) == P.shape[2] = 2

PositiveColumnExists(P) == HasColumn(P, 1)

TestProbabilities(l) == ToList(Column(PredictProba(l["clf"], l["X_test"]), 1))

L38 ==
    /\ pc = "L38"
    /\ calls' = Append(calls, Call("predict_proba", <<locals["X_test"]>>))
    /\ IF ~QueryAccepts(locals["clf"], locals["X_test"]) THEN Raise("ValueError")
       ELSE IF ~PositiveColumnExists(PredictProba(locals["clf"], locals["X_test"]))
            THEN Raise("IndexError")
       ELSE Step("L39", "test_probabilities", TestProbabilities(locals))
    /\ UNCHANGED <<fs, learned, run, outcomes>>

(* Line 39: test_predictions = clf.predict(X_test).tolist() *)
(* Variant: predictions of the train rows. *)
TestPredictionsOfTrain(l) == ToList(Predict(l["clf"], l["X_train"]))

TestPredictions(l) == ToList(Predict(l["clf"], l["X_test"]))

L39 ==
    /\ pc = "L39"
    /\ calls' = Append(calls, Call("predict", <<locals["X_test"]>>))
    /\ IF QueryAccepts(locals["clf"], locals["X_test"])
       THEN Step("L40", "test_predictions", TestPredictions(locals))
       ELSE Raise("ValueError")
    /\ UNCHANGED <<fs, learned, run, outcomes>>

(* Line 40: test_accuracy = float(np.mean(clf.predict(X_test) == y_test)) *)
TestAccuracy(l) == NpMean(ElementwiseEq(Predict(l["clf"], l["X_test"]), l["y_test"]))

L40 ==
    /\ pc = "L40"
    /\ calls' = Append(calls, Call("predict", <<locals["X_test"]>>))
    /\ IF QueryAccepts(locals["clf"], locals["X_test"])
       THEN Step("L41", "test_accuracy", TestAccuracy(locals))
       ELSE Raise("ValueError")
    /\ UNCHANGED <<fs, learned, run, outcomes>>

(* Line 41: train_accuracy = float(np.mean(clf.predict(X_train) == y_train)) *)
(* Variant: line 40 repeated for train_accuracy. *)
TrainAccuracyOfTest(l) ==
    NpMean(ElementwiseEq(Predict(l["clf"], l["X_test"]), l["y_test"]))

TrainAccuracy(l) == NpMean(ElementwiseEq(Predict(l["clf"], l["X_train"]), l["y_train"]))

L41 ==
    /\ pc = "L41"
    /\ calls' = Append(calls, Call("predict", <<locals["X_train"]>>))
    /\ IF QueryAccepts(locals["clf"], locals["X_train"])
       THEN Step("L43", "train_accuracy", TrainAccuracy(locals))
       ELSE Raise("ValueError")
    /\ UNCHANGED <<fs, learned, run, outcomes>>

(* Lines 43-48: result = {...}, a dict of four entries in this order *)
Result(l) ==
    << <<"test_probabilities", l["test_probabilities"]>>,
       <<"test_predictions", l["test_predictions"]>>,
       <<"test_accuracy", l["test_accuracy"]>>,
       <<"train_accuracy", l["train_accuracy"]>> >>

L43 ==
    /\ pc = "L43"
    /\ Step("L49", "result", Result(locals))
    /\ UNCHANGED <<fs, calls, learned, run, outcomes>>

(* Line 49: print(json.dumps(result)), after which main() returns *)
L49 ==
    /\ pc = "L49"
    /\ pc' = "done"
    /\ calls' = Append(calls, Call("print", <<JsonDumps(locals["result"])>>))
    /\ stdout' = Append(stdout, JsonDumps(locals["result"]))
    /\ UNCHANGED <<fs, locals, err, learned, run, outcomes>>

(***************************************************************************)
(* Lines 52-53: the script is run again on the same data directory, as a   *)
(* new process.  The outcome of the one that ended is kept for comparison. *)
(***************************************************************************)
Outcome == [status |-> pc, stdout |-> stdout, err |-> err]

Invoke ==
    /\ Terminated
    /\ run < MaxRuns
    /\ outcomes' = Append(outcomes, Outcome)
    /\ run' = run + 1
    /\ pc' = "L13"
    /\ locals' = NoLocals
    /\ stdout' = <<>>
    /\ err' = NoError
    /\ calls' = <<>>
    /\ UNCHANGED <<fs, learned>>

Next ==
    \/ L13 \/ L20 \/ L21 \/ L23 \/ L24 \/ L25 \/ L26 \/ L28 \/ L36
    \/ L38 \/ L39 \/ L40 \/ L41 \/ L43 \/ L49 \/ Invoke

Spec == Init /\ [][Next]_vars

(***************************************************************************)
(* What the claims speak about: the two input files as they are on disk,   *)
(* and the values a finished run has bound.                                *)
(***************************************************************************)
TrainInput == fs[PathJoin(DataDir, TrainFile)]
TestInput == fs[PathJoin(DataDir, TestFile)]

LabelSet(file) == {LabelAt(file, i) : i \in 1..Len(file.rows)}

NamesLabel(file) == LabelCol \in Range(file.header)

ResultNames == {"test_probabilities", "test_predictions", "test_accuracy", "train_accuracy"}

InUnitInterval(f) == f.den >= 1 /\ 0 <= f.num /\ f.num <= f.den

Hits(predicted, file) ==
    Cardinality({i \in 1..Len(file.rows) : predicted[i] = LabelAt(file, i)})

(***************************************************************************)
(* C1.  Output is emitted only on full success.  At most one line is ever  *)
(* written; a line is written only by a run that ended normally with all   *)
(* four values bound; and a run that ended where a step fails (a file      *)
(* absent, no label column, a split of no rows, an exception of the        *)
(* classifier) ended abnormally with nothing written.                      *)
(***************************************************************************)
C1_OutputOnlyOnFullSuccess ==
    /\ Len(stdout) <= 1
    /\ stdout # <<>> =>
          /\ pc = "done"
          /\ err = NoError
          /\ ResultNames \subseteq DOMAIN locals
    /\ pc = "aborted" => stdout = <<>> /\ err # NoError
    /\ (/\ Terminated
        /\ \/ ~TrainInput.exists \/ ~TestInput.exists
           \/ ~NamesLabel(TrainInput) \/ ~NamesLabel(TestInput)
           \/ TrainInput.rows = <<>> \/ TestInput.rows = <<>>
           \/ err # NoError)
       => pc = "aborted" /\ stdout = <<>>

C1_Witness ==
    /\ pc = "aborted"
    /\ err = [type |-> "ValueError", line |-> "L38"]
    /\ locals["clf"].fitted
    /\ stdout = <<>>

(***************************************************************************)
(* C2.  A run that emits a record emits exactly the four keys, and its     *)
(* test_predictions and test_probabilities have one entry per row of the   *)
(* test file, in the order of the rows.                                    *)
(***************************************************************************)
C2_FourKeysOnePerTestRow ==
    pc = "done" =>
        LET r == locals["result"]
            n == Len(TestInput.rows)
            clf == locals["clf"]
            features(i) == Project(TestInput.header, TestInput.rows[i], 1)
        IN  /\ Len(r) = 4
            /\ {r[i][1] : i \in 1..Len(r)} = ResultNames
            /\ Cardinality({r[i][1] : i \in 1..Len(r)}) = 4
            /\ stdout = <<JsonDumps(r)>>
            /\ \A i \in 1..4 : r[i][2] = locals[r[i][1]]
            /\ Len(locals["test_predictions"].items) = n
            /\ Len(locals["test_probabilities"].items) = n
            /\ \A i \in 1..n :
                  /\ locals["test_predictions"].items[i] =
                        PyInt(clf.classes_[clf.ensemble[features(i)]])
                  /\ locals["test_probabilities"].items[i] =
                        (IF clf.ensemble[features(i)] = 2 THEN Frac(1, 1) ELSE Frac(0, 1))

C2_Witness ==
    /\ pc = "done"
    /\ LabelSet(TrainInput) = {0, 1}
    /\ Len(TestInput.rows) = 2
    /\ Len(TrainInput.rows) = 3
    /\ locals["test_predictions"].items = <<PyInt(1), PyInt(0)>>

(***************************************************************************)
(* C3.  Whenever a record is emitted, test_accuracy and train_accuracy     *)
(* are numbers between 0 and 1 (never nan).                                *)
(***************************************************************************)
C3_AccuraciesInUnitInterval ==
    stdout # <<>> =>
        /\ InUnitInterval(locals["test_accuracy"])
        /\ InUnitInterval(locals["train_accuracy"])

C3_Witness ==
    /\ stdout # <<>>
    /\ locals["test_accuracy"] = Frac(1, 2)
    /\ locals["train_accuracy"] = Frac(2, 3)

(***************************************************************************)
(* C4.  A split of no rows is fatal.  A run whose two files load and one   *)
(* of which has no rows ends abnormally with no record; when both name     *)
(* the label column, what ends it is the ValueError with which the         *)
(* classifier refuses an empty matrix, at fit for the train split and at   *)
(* the first query for the test split.  No run binds or prints a nan.      *)
(***************************************************************************)
C4_EmptySplitIsFatal ==
    /\ (/\ Terminated
        /\ TrainInput.exists /\ TestInput.exists
        /\ TrainInput.rows = <<>> \/ TestInput.rows = <<>>)
       => /\ pc = "aborted"
          /\ stdout = <<>>
          /\ (NamesLabel(TrainInput) /\ NamesLabel(TestInput)) =>
                /\ err.type = "ValueError"
                /\ err.line = (IF TrainInput.rows = <<>> THEN "L36"
                               ELSE IF Cardinality(LabelSet(TrainInput)) < 2 THEN "L36"
                               ELSE "L38")
    /\ \A name \in {"test_accuracy", "train_accuracy"} \cap DOMAIN locals :
          locals[name] # NaN

C4_Witness ==
    /\ pc = "aborted"
    /\ TestInput.exists /\ NamesLabel(TestInput) /\ TestInput.rows = <<>>
    /\ Len(TrainInput.rows) = 3
    /\ err = [type |-> "ValueError", line |-> "L38"]

(***************************************************************************)
(* C5, as claimed.  Whenever the feature columns of the two files differ   *)
(* (in name, in order or in number), the run aborts and emits nothing.     *)
(***************************************************************************)
C5_MismatchedColumnsAbort ==
    (/\ Terminated
     /\ TrainInput.exists /\ TestInput.exists
     /\ FeatureCols(TrainInput.header) # FeatureCols(TestInput.header))
    => pc = "aborted" /\ stdout = <<>>

(***************************************************************************)
(* C5, amended.  Only the number of feature columns is checked, and by the *)
(* classifier: when the two files differ in it the run aborts with no      *)
(* output, and once fit has succeeded it is the first query that raises    *)
(* ValueError.  With the same number of feature columns the names and the  *)
(* order are never compared: no query raises, and the run that fit         *)
(* accepts emits its record, each test row scored by column position.      *)
(***************************************************************************)
C5_OnlyColumnCountIsChecked ==
    LET wTrain == Len(FeatureCols(TrainInput.header))
        wTest == Len(FeatureCols(TestInput.header))
        loaded == /\ TrainInput.exists /\ TestInput.exists
                  /\ NamesLabel(TrainInput) /\ NamesLabel(TestInput)
    IN  /\ (Terminated /\ TrainInput.exists /\ TestInput.exists /\ wTrain # wTest)
           => /\ pc = "aborted"
              /\ stdout = <<>>
              /\ (loaded /\ "clf" \in DOMAIN locals /\ locals["clf"].fitted)
                    => err = [type |-> "ValueError", line |-> "L38"]
        /\ (Terminated /\ loaded /\ wTrain = wTest /\ TestInput.rows # <<>>
              /\ locals["clf"].fitted)
           => /\ pc = "done"
              /\ \A i \in 1..Len(TestInput.rows) :
                    locals["test_predictions"].items[i].v =
                        locals["clf"].classes_[
                            locals["clf"].ensemble[
                                Project(TestInput.header, TestInput.rows[i], 1)]]

C5_Witness ==
    /\ pc = "aborted"
    /\ err = [type |-> "ValueError", line |-> "L38"]
    /\ TestInput.rows # <<>>
    /\ Len(FeatureCols(TestInput.header)) # Len(FeatureCols(TrainInput.header))

(***************************************************************************)
(* C6.  When both files load and one of them has no label column, the run  *)
(* aborts with KeyError at the statement that drops the column (line 23    *)
(* for the train file, line 25 for the test file), before the classifier   *)
(* is constructed or fitted, and emits nothing.                            *)
(***************************************************************************)
C6_MissingLabelAbortsAtSplit ==
    (/\ Terminated
     /\ TrainInput.exists /\ TestInput.exists
     /\ ~NamesLabel(TrainInput) \/ ~NamesLabel(TestInput))
    => /\ pc = "aborted"
       /\ stdout = <<>>
       /\ err = [type |-> "KeyError",
                 line |-> IF ~NamesLabel(TrainInput) THEN "L23" ELSE "L25"]
       /\ "clf" \notin DOMAIN locals
       /\ \A i \in 1..Len(calls) :
             calls[i].op \notin {"GradientBoostingClassifier", "fit"}

C6_Witness ==
    /\ pc = "aborted"
    /\ err = [type |-> "KeyError", line |-> "L25"]
    /\ TestInput.rows # <<>>

(***************************************************************************)
(* C7.  In an emitted record, test_accuracy is the fraction of test rows   *)
(* whose emitted prediction equals the label of that row in the test file, *)
(* and train_accuracy is the fraction of train rows whose prediction       *)
(* equals the label of that row in the train file.                         *)
(***************************************************************************)
C7_AccuracyIsFractionOfHits ==
    pc = "done" =>
        /\ locals["test_accuracy"] =
              Frac(Hits([i \in 1..Len(TestInput.rows) |->
                            locals["test_predictions"].items[i].v], TestInput),
                   Len(TestInput.rows))
        /\ locals["train_accuracy"] =
              Frac(Hits(Predict(locals["clf"], locals["X_train"]).data, TrainInput),
                   Len(TrainInput.rows))

C7_Witness ==
    /\ pc = "done"
    /\ locals["test_accuracy"] = Frac(1, 2)
    /\ locals["train_accuracy"] = Frac(1, 3)

(***************************************************************************)
(* C8.  Determinism.  Every run of the script on the same data directory   *)
(* has the same outcome: the runs fail at the same statement with the same *)
(* exception, or they write the same text.                                 *)
(***************************************************************************)
C8_RunsAgree ==
    /\ \A i, j \in 1..Len(outcomes) : outcomes[i] = outcomes[j]
    /\ Terminated => \A i \in 1..Len(outcomes) : outcomes[i] = Outcome

C8_Witness ==
    /\ pc = "done"
    /\ Len(outcomes) >= 1
    /\ Len(TestInput.rows) = 2

(***************************************************************************)
(* C9.  Three or more classes.  A run on loadable files with a label       *)
(* column each, the same number of feature columns, at least one test row  *)
(* and three classes among the train labels succeeds: one prediction and   *)
(* one probability per test row, both accuracies between 0 and 1, and the  *)
(* probability of a row is the one the classifier gives its second class.  *)
(***************************************************************************)
C9_ThreeClassesStillScored ==
    (/\ Terminated
     /\ TrainInput.exists /\ TestInput.exists
     /\ NamesLabel(TrainInput) /\ NamesLabel(TestInput)
     /\ Len(FeatureCols(TrainInput.header)) = Len(FeatureCols(TestInput.header))
     /\ TestInput.rows # <<>>
     /\ Cardinality(LabelSet(TrainInput)) >= 3)
    => /\ pc = "done"
       /\ Len(stdout) = 1
       /\ Len(locals["test_predictions"].items) = Len(TestInput.rows)
       /\ Len(locals["test_probabilities"].items) = Len(TestInput.rows)
       /\ InUnitInterval(locals["test_accuracy"])
       /\ InUnitInterval(locals["train_accuracy"])
       /\ Len(locals["clf"].classes_) >= 3
       /\ \A i \in 1..Len(TestInput.rows) :
             locals["test_probabilities"].items[i] =
                 PredictProba(locals["clf"], locals["X_test"]).data[i][2]

C9_Witness ==
    /\ pc = "done"
    /\ LabelSet(TrainInput) = {0, 1, 2}
    /\ Len(TestInput.rows) = 2
    /\ locals["test_predictions"].items = <<PyInt(2), PyInt(1)>>

(***************************************************************************)
(* C10.  The steps of a run occur in one fixed order: load train, load     *)
(* test, split both, construct, fit, query, emit.  fit is called at most   *)
(* once, once in a run that emits, with the features and labels of the     *)
(* train file, after both files are loaded and split; every query is made  *)
(* of a fitted classifier; and printing is the last step.                  *)
(***************************************************************************)
OrderOfCalls ==
    <<"read_csv", "read_csv", "drop", "getitem", "drop", "getitem",
      "GradientBoostingClassifier", "fit", "predict_proba", "predict", "predict",
      "predict", "print">>

C10_FixedOrderFitOnceOnTrain ==
    LET n == Len(calls)
        IsQuery(c) == c.op \in {"predict", "predict_proba"}
    IN  /\ n <= Len(OrderOfCalls)
        /\ \A i \in 1..n : calls[i].op = OrderOfCalls[i]
        /\ n >= 1 => calls[1].args = <<PathJoin(DataDir, TrainFile)>>
        /\ n >= 2 => calls[2].args = <<PathJoin(DataDir, TestFile)>>
        /\ \A i \in 1..n :
              /\ calls[i].op = "fit" =>
                    /\ \A j \in 1..n : calls[j].op = "fit" => j = i
                    /\ calls[i].args = <<Values(Drop(ReadCsv(TrainInput))),
                                         LabelValues(ReadCsv(TrainInput))>>
                    /\ {"train_df", "test_df", "X_train", "y_train", "X_test", "y_test"}
                          \subseteq DOMAIN locals
              /\ IsQuery(calls[i]) =>
                    /\ locals["clf"].fitted
                    /\ \E j \in 1..(i - 1) : calls[j].op = "fit"
              /\ calls[i].op = "print" =>
                    /\ i = n
                    /\ Cardinality({j \in 1..(i - 1) : IsQuery(calls[j])}) = 4
        /\ pc = "done" => calls[n].op = "print"
        /\ stdout # <<>> => calls[n].op = "print"

C10_Witness ==
    /\ pc = "done"
    /\ Len(calls) = Len(OrderOfCalls)
    /\ TrainInput.rows # TestInput.rows

====
